---- MODULE Spec2Model ----
(***************************************************************************)
(* Edge Config redirects: the redirect middleware                          *)
(* (EdgeConfigRedirectsMiddleware: getHandler, edgeConfigHandler,          *)
(* createResponse, getRedirects) and the publish handler that writes the   *)
(* rule set to the store.                                                  *)
(*                                                                         *)
(* Strings are TLA+ strings; Len, SubSeq and \o act on them character by   *)
(* character.                                                              *)
(***************************************************************************)
EXTENDS Integers, Sequences, FiniteSets, TLC

-----------------------------------------------------------------------------
(* String helpers (JavaScript String methods used by the source).          *)

\* The value of a missing property / an undefined variable.
UNDEF == "<undefined>"

\* The characters a..b of s that exist (s.substring with 1-based, inclusive
\* bounds).
Sub(s, a, b) ==
  LET lo == IF a < 1 THEN 1 ELSE a
      hi == IF b > Len(s) THEN Len(s) ELSE b
  IN IF lo > hi THEN "" ELSE SubSeq(s, lo, hi)

\* The character at position i, "" when there is none.
Ch(s, i) == Sub(s, i, i)

UpperChars == "ABCDEFGHIJKLMNOPQRSTUVWXYZ"
LowerChars == "abcdefghijklmnopqrstuvwxyz"

Alphabet == 1..26

UpperSet == {Ch(UpperChars, i) : i \in Alphabet}

LowerSet == {Ch(LowerChars, i) : i \in Alphabet}

LowerOf == [c \in UpperSet |-> Ch(LowerChars, CHOOSE i \in Alphabet : Ch(UpperChars, i) = c)]

LowerCh(c) == IF c \in UpperSet THEN LowerOf[c] ELSE c

IsLetter(c) == c \in UpperSet \/ c \in LowerSet

IsDigit(c) == c \in {"0", "1", "2", "3", "4", "5", "6", "7", "8", "9"}

RECURSIVE toLowerCase(_)
toLowerCase(s) ==
  IF s = "" THEN "" ELSE LowerCh(Ch(s, 1)) \o toLowerCase(Sub(s, 2, Len(s)))

startsWith(s, p) == Len(p) <= Len(s) /\ Sub(s, 1, Len(p)) = p

endsWith(s, p) == Len(p) <= Len(s) /\ Sub(s, Len(s) - Len(p) + 1, Len(s)) = p

\* startsWith under the regular expression flag i.
startsWithI(s, p) == startsWith(toLowerCase(s), toLowerCase(p))

\* Index (1-based) of the first occurrence of sub in s from position i on,
\* 0 when there is none.
RECURSIVE indexFrom(_, _, _)
indexFrom(s, sub, i) ==
  IF i + Len(sub) - 1 > Len(s) THEN 0
  ELSE IF SubSeq(s, i, i + Len(sub) - 1) = sub THEN i
  ELSE indexFrom(s, sub, i + 1)

indexOf(s, sub) == indexFrom(s, sub, 1)

includes(s, sub) == sub = "" \/ indexOf(s, sub) > 0

\* String.prototype.split on a one-character separator.
RECURSIVE split(_, _)
split(s, sep) ==
  LET i == indexOf(s, sep)
  IN IF i = 0 THEN <<s>>
     ELSE <<Sub(s, 1, i - 1)>> \o split(Sub(s, i + 1, Len(s)), sep)

\* An out-of-range index of a JavaScript array reads undefined.
At(arr, i) == IF i \in 1..Len(arr) THEN arr[i] ELSE UNDEF

-----------------------------------------------------------------------------
(* Regular expressions: the RegExp engine behind regexParser(...).test and *)
(* String.prototype.replace.  The grammar covered is the one the rule      *)
(* patterns of this model use: literal characters, \c (an escaped          *)
(* character), . , [...] (a positive class), the quantifiers * ? + on a    *)
(* one-character atom, capturing groups ( ) without a quantifier, and the  *)
(* assertions ^ and $.  A pattern is compiled to a sequence of atoms.      *)

Quantifiers == {"*", "?", "+"}

Atom(t, c, q, g) == [t |-> t, c |-> c, q |-> q, g |-> g]

\* The quantifier that follows position i of src ("" when there is none).
QuantAt(src, i) == IF i <= Len(src) /\ Ch(src, i) \in Quantifiers THEN Ch(src, i) ELSE ""

\* new RegExp(src): [ok |-> FALSE] models the SyntaxError it throws.
RECURSIVE ParseRe(_, _, _, _, _)
ParseRe(src, i, atoms, open, n) ==
  IF i > Len(src)
  THEN [ok |-> open = <<>>, atoms |-> atoms, n |-> n]
  ELSE
    LET c == Ch(src, i)
        bad == [ok |-> FALSE, atoms |-> atoms, n |-> n]
    IN CASE c = "\\" ->
              IF i = Len(src) THEN bad
              ELSE LET q == QuantAt(src, i + 2)
                   IN ParseRe(src, i + 2 + Len(q),
                              Append(atoms, Atom("lit", Ch(src, i + 1), q, 0)), open, n)
         [] c = "." ->
              LET q == QuantAt(src, i + 1)
              IN ParseRe(src, i + 1 + Len(q), Append(atoms, Atom("any", "", q, 0)), open, n)
         [] c = "[" ->
              LET k == indexOf(Sub(src, i + 1, Len(src)), "]")
              IN IF k = 0 THEN bad
                 ELSE LET q == QuantAt(src, i + k + 1)
                      IN ParseRe(src, i + k + 1 + Len(q),
                                 Append(atoms, Atom("class", Sub(src, i + 1, i + k - 1), q, 0)),
                                 open, n)
         [] c = "(" ->
              IF QuantAt(src, i + 1) # "" THEN bad
              ELSE ParseRe(src, i + 1, Append(atoms, Atom("open", "", "", n + 1)),
                           <<n + 1>> \o open, n + 1)
         [] c = ")" ->
              IF open = <<>> \/ QuantAt(src, i + 1) # "" THEN bad
              ELSE ParseRe(src, i + 1, Append(atoms, Atom("close", "", "", Head(open))),
                           Tail(open), n)
         [] c = "^" ->
              IF QuantAt(src, i + 1) # "" THEN bad
              ELSE ParseRe(src, i + 1, Append(atoms, Atom("bol", "", "", 0)), open, n)
         [] c = "$" ->
              IF QuantAt(src, i + 1) # "" THEN bad
              ELSE ParseRe(src, i + 1, Append(atoms, Atom("eol", "", "", 0)), open, n)
         [] c \in Quantifiers -> bad
         [] OTHER ->
              LET q == QuantAt(src, i + 1)
              IN ParseRe(src, i + 1 + Len(q), Append(atoms, Atom("lit", c, q, 0)), open, n)

\* Whether a one-character atom accepts character c (flag i: letters compare
\* case-insensitively).
Accepts(a, c, icase) ==
  LET f(x) == IF icase THEN LowerCh(x) ELSE x
  IN CASE a.t = "any" -> TRUE
       [] a.t = "lit" -> f(a.c) = f(c)
       [] a.t = "class" -> \E j \in 1..Len(a.c) : f(Ch(a.c, j)) = f(c)
       [] OTHER -> FALSE

\* The longest run of characters from pos on that atom a accepts.
RECURSIVE Run(_, _, _, _)
Run(a, s, pos, icase) ==
  IF pos <= Len(s) /\ Accepts(a, Ch(s, pos), icase) THEN 1 + Run(a, s, pos + 1, icase) ELSE 0

NoMatch == [ok |-> FALSE, start |-> 0, end |-> 0, caps |-> <<>>]

\* Backtracking match of atoms[k..] at position pos of s; caps[g] is the
\* <<start, end>> of group g.  A greedy quantifier tries the longest run first.
RECURSIVE MatchAt(_, _, _, _, _, _)
RECURSIVE TryCount(_, _, _, _, _, _, _, _)
MatchAt(atoms, k, s, pos, caps, icase) ==
  IF k > Len(atoms)
  THEN [ok |-> TRUE, start |-> 0, end |-> pos, caps |-> caps]
  ELSE
    LET a == atoms[k]
    IN CASE a.t = "bol" ->
              IF pos = 1 THEN MatchAt(atoms, k + 1, s, pos, caps, icase) ELSE NoMatch
         [] a.t = "eol" ->
              IF pos = Len(s) + 1 THEN MatchAt(atoms, k + 1, s, pos, caps, icase) ELSE NoMatch
         [] a.t = "open" ->
              MatchAt(atoms, k + 1, s, pos, [caps EXCEPT ![a.g] = <<pos, pos>>], icase)
         [] a.t = "close" ->
              MatchAt(atoms, k + 1, s, pos, [caps EXCEPT ![a.g] = <<caps[a.g][1], pos>>], icase)
         [] OTHER ->
              LET run == Run(a, s, pos, icase)
                  most == IF a.q \in {"*", "+"} THEN run ELSE IF run > 0 THEN 1 ELSE 0
                  least == IF a.q \in {"*", "?"} THEN 0 ELSE 1
              IN TryCount(atoms, k, s, pos, caps, icase, most, least)

TryCount(atoms, k, s, pos, caps, icase, count, least) ==
  IF count < least THEN NoMatch
  ELSE LET r == MatchAt(atoms, k + 1, s, pos + count, caps, icase)
       IN IF r.ok THEN r ELSE TryCount(atoms, k, s, pos, caps, icase, count - 1, least)

\* RegExp.prototype.exec from position from on: the leftmost match.
RECURSIVE Exec(_, _, _)

\* The match r tried at position from, or the leftmost match after it.
Leftmost(re, s, from, r) ==
  IF r.ok THEN [r EXCEPT !.start = from] ELSE Exec(re, s, from + 1)

Exec(re, s, from) ==
  IF from > Len(s) + 1 THEN NoMatch
  ELSE Leftmost(re, s, from,
                MatchAt(re.atoms, 1, s, from, [g \in 1..re.n |-> <<0, 0>>], re.icase))

\* RegExp.prototype.test on a regular expression just built (lastIndex 0).
Test(re, s) == Exec(re, s, 1).ok

\* The replacement text for match m: $$, $& and $1..$9 are substituted, and
\* a $n naming no group of the pattern stays as written.
RECURSIVE Expand(_, _, _, _)
Expand(repl, i, s, m) ==
  IF i > Len(repl) THEN ""
  ELSE IF Ch(repl, i) = "$" /\ i < Len(repl)
       THEN LET d == Ch(repl, i + 1)
            IN CASE d = "$" -> "$" \o Expand(repl, i + 2, s, m)
                 [] d = "&" -> Sub(s, m.start, m.end - 1) \o Expand(repl, i + 2, s, m)
                 [] IsDigit(d) /\ d # "0" ->
                      LET g == CHOOSE x \in 1..9 : Ch("123456789", x) = d
                      IN IF g <= Len(m.caps)
                         THEN Sub(s, m.caps[g][1], m.caps[g][2] - 1) \o Expand(repl, i + 2, s, m)
                         ELSE "$" \o d \o Expand(repl, i + 2, s, m)
                 [] OTHER -> "$" \o Expand(repl, i + 1, s, m)
       ELSE Ch(repl, i) \o Expand(repl, i + 1, s, m)

\* String.prototype.replace(re, repl) with flag g: every match, left to right.
RECURSIVE ReplaceAll(_, _, _, _)

\* The rest of s from position from on, after the match m (an empty match
\* moves on by one character).
AfterMatch(re, s, from, repl) ==
  IF from > Len(s) + 1 THEN "" ELSE ReplaceAll(re, s, from, repl)

\* s from position from on with the next match m and all after it replaced.
ReplaceMatch(re, s, from, repl, m) ==
  IF ~m.ok THEN Sub(s, from, Len(s))
  ELSE Sub(s, from, m.start - 1) \o Expand(repl, 1, s, m) \o
       (IF m.end > m.start THEN "" ELSE Ch(s, m.start)) \o
       AfterMatch(re, s, IF m.end > m.start THEN m.end ELSE m.start + 1, repl)

ReplaceAll(re, s, from, repl) == ReplaceMatch(re, s, from, repl, Exec(re, s, from))

-----------------------------------------------------------------------------
(* regex-parser and the pattern rewriting of getRedirects.                 *)

\* The position of the last "/" of s at or before position i (0 when there
\* is none).
RECURSIVE LastSlash(_, _)
LastSlash(s, i) ==
  IF i < 1 THEN 0 ELSE IF SubSeq(s, i, i) = "/" THEN i ELSE LastSlash(s, i - 1)

\* The letters that follow position i of s.
RECURSIVE LettersFrom(_, _)
LettersFrom(s, i) ==
  IF i <= Len(s) /\ IsLetter(Ch(s, i)) THEN Ch(s, i) \o LettersFrom(s, i + 1) ELSE ""

\* regexParser(input) for an input "/body/flags" (the form getRedirects
\* builds): new RegExp(body, flags).
regexParser(input) ==
  LET last == LastSlash(input, Len(input))
      body == Sub(input, 2, last - 1)
      flags == LettersFrom(input, last + 1)
      re == ParseRe(body, 1, <<>>, <<>>, 0)
  IN [ok |-> re.ok, atoms |-> re.atoms, n |-> re.n, icase |-> includes(flags, "i")]

\* s.replace(/^pre|suf$/g, empty): a leading pre and a trailing suf are removed,
\* the trailing one only from what the leading match left.
StripEnds(s, pre, suf) ==
  LET a == IF startsWith(s, pre) THEN Sub(s, Len(pre) + 1, Len(s)) ELSE s
  IN IF endsWith(a, suf) THEN Sub(a, 1, Len(a) - Len(suf)) ELSE a

\* pattern.replace(RegExp(^[^]?/${language}/, gi), empty): [^]? is greedy, so
\* the form with one leading character is tried first.
StripLanguage(pattern, language) ==
  LET seg == "/" \o language \o "/"
  IN IF Len(pattern) >= 1 /\ startsWithI(Sub(pattern, 2, Len(pattern)), seg)
     THEN Sub(pattern, Len(seg) + 2, Len(pattern))
     ELSE IF startsWithI(pattern, seg)
          THEN Sub(pattern, Len(seg) + 1, Len(pattern))
          ELSE pattern

\* s.replace(/(?<!\\)\?/g, \\?): every ? not preceded by a backslash is escaped.
RECURSIVE EscapeQuestion(_, _)
EscapeQuestion(s, i) ==
  IF i > Len(s) THEN ""
  ELSE (IF Ch(s, i) = "?" /\ (i = 1 \/ Ch(s, i - 1) # "\\") THEN "\\?" ELSE Ch(s, i))
       \o EscapeQuestion(s, i + 1)

\* The pattern getRedirects writes back into redirect.pattern.
ModifyPattern(pattern, language) ==
  LET p1 == StripLanguage(pattern, language)
      p2 == StripEnds(p1, "/", "/")
      p3 == StripEnds(p2, "^/", "/$")
      p4 == StripEnds(p3, "^", "$")
      p5 == EscapeQuestion(p4, 1)
      p6 == StripEnds(p5, "", "$/gi")
  IN "/^/" \o p6 \o "[/]?$/gi"

-----------------------------------------------------------------------------
(* URLs: the parts of NextURL / URL / URLSearchParams / decodeURIComponent *)
(* that createResponse uses.                                               *)

\* ASCII codes 32 (space) to 95, and 97 to 126; a TLA+ string cannot hold
\* code 96 (the grave accent).
AsciiLow ==
  " !" \o "\"" \o "#$%&'" \o "()" \o "*+,-./0123456789:;<=>?@ABCDEFGHIJKLMNOPQRSTUVWXYZ[" \o "\\" \o "]^_"

AsciiHigh == "abcdefghijklmnopqrstuvwxyz{|}~"

Decodable == (32..126) \ {96}

FromCharCode(code) == IF code < 96 THEN Ch(AsciiLow, code - 31) ELSE Ch(AsciiHigh, code - 96)

HexChars == "0123456789abcdef"

IsHex(c) == c # "" /\ includes(HexChars, LowerCh(c))

HexVal(c) == indexOf(HexChars, LowerCh(c)) - 1

\* decodeURIComponent(s): [ok |-> FALSE] models the URIError it throws on a
\* malformed escape.  Escapes of the codes in Decodable are decoded; any
\* other escape (a control code, a byte of a multi-byte sequence) is treated
\* as malformed, and no string of this model holds one.
RECURSIVE decodeURIComponent(_)
decodeURIComponent(s) ==
  IF s = "" THEN [ok |-> TRUE, v |-> ""]
  ELSE IF Ch(s, 1) # "%"
       THEN LET rest == decodeURIComponent(Sub(s, 2, Len(s)))
            IN IF rest.ok THEN [ok |-> TRUE, v |-> Ch(s, 1) \o rest.v] ELSE rest
       ELSE IF ~(IsHex(Ch(s, 2)) /\ IsHex(Ch(s, 3))) THEN [ok |-> FALSE, v |-> ""]
            ELSE LET code == 16 * HexVal(Ch(s, 2)) + HexVal(Ch(s, 3))
                     rest == decodeURIComponent(Sub(s, 4, Len(s)))
                 IN IF code \in Decodable /\ rest.ok
                    THEN [ok |-> TRUE, v |-> FromCharCode(code) \o rest.v]
                    ELSE [ok |-> FALSE, v |-> ""]

\* REGEXP_ABSOLUTE_URL.test(s): /^(?:[a-z]+:)?\/\//i
IsAbsoluteUrl(s) ==
  LET k == Len(LettersFrom(s, 1))
  IN startsWith(s, "//") \/ (k > 0 /\ Sub(s, k + 1, k + 3) = "://")

\* REGEXP_CONTEXT_SITE_LANG.test(s): /\$siteLang/i
HasSiteLang(s) == includes(toLowerCase(s), "$sitelang")

\* s.replace(REGEXP_CONTEXT_SITE_LANG, language): the first occurrence.
ReplaceSiteLang(s, language) ==
  LET i == indexOf(toLowerCase(s), "$sitelang")
  IN IF i = 0 THEN s
     ELSE Sub(s, 1, i - 1) \o language \o Sub(s, i + Len("$sitelang"), Len(s))

\* s.replace(sub, empty): the first occurrence of the string sub is removed.
RemoveFirst(s, sub) ==
  LET i == indexOf(s, sub)
  IN IF i = 0 THEN s ELSE Sub(s, 1, i - 1) \o Sub(s, i + Len(sub), Len(s))

\* The scheme and host every URL of a request starts with.
Origin(rq) == "https://" \o rq.hostname

\* url.pathname = p: the path of a URL always starts with "/".
SetPathname(p) == IF startsWith(p, "/") THEN p ELSE "/" \o p

\* for (const [key, val] of new URLSearchParams(q).entries())
\*   url.searchParams.append(key, val): search after the loop.
RECURSIVE AppendParams(_, _)
AppendParams(search, pairs) ==
  IF pairs = <<>> THEN search
  ELSE LET kv == Head(pairs)
           i == indexOf(kv, "=")
           key == IF i = 0 THEN kv ELSE Sub(kv, 1, i - 1)
           val == IF i = 0 THEN "" ELSE Sub(kv, i + 1, Len(kv))
           next == IF kv = "" THEN search
                   ELSE (IF search = "" THEN "?" ELSE search \o "&") \o key \o "=" \o val
       IN AppendParams(next, Tail(pairs))

-----------------------------------------------------------------------------
(* The data of the middleware.                                             *)

\* The redirect types of @sitecore-jss/sitecore-jss/site.
REDIRECT_TYPE_301 == "REDIRECT_301"
REDIRECT_TYPE_302 == "REDIRECT_302"
REDIRECT_TYPE_SERVER_TRANSFER == "SERVER_TRANSFER"

\* A RedirectInfo.  A property that is missing holds UNDEF; locale "" is the
\* rule without a locale.
RedirectInfo(pattern, target, redirectType, locale, preserved) ==
  [pattern |-> pattern, target |-> target, redirectType |-> redirectType,
   locale |-> locale, isQueryStringPreserved |-> preserved]

\* What the store holds under the site name: nothing, the empty string, or
\* a string, given by the document JSON.parse reads from it: k is "array"
\* (of items), "object", "number" (not 0), "string" (not empty), "falsy"
\* (null, 0, false or the empty string), or "malformed" for a string that is
\* no JSON.
NoValue == [t |-> "undefined", k |-> "", items |-> <<>>]
EmptyString == [t |-> "empty", k |-> "", items |-> <<>>]
JsonText(k, items) == [t |-> "json", k |-> k, items |-> items]

\* JSON.stringify(redirects) of a rule array.
JSONstringify(items) == JsonText("array", items)

\* JSON.parse(text): [ok |-> FALSE] models the SyntaxError it throws.
JSONparse(text) ==
  IF text.k = "malformed" THEN [ok |-> FALSE, k |-> "", items |-> <<>>]
  ELSE [ok |-> TRUE, k |-> text.k, items |-> text.items]

\* The responses of the middleware: NextResponse.redirect, NextResponse.rewrite
\* and res || NextResponse.next().  url is the href of the URL without the
\* locale prefix NextURL renders, locale the locale of that URL.
Redirect(url, locale, status) == [type |-> "redirect", status |-> status, url |-> url, locale |-> locale]
Rewrite(url, locale) == [type |-> "rewrite", status |-> 200, url |-> url, locale |-> locale]
Pass == [type |-> "next", status |-> 200, url |-> "", locale |-> ""]

\* No response: the error leaves the handler.
Thrown == [type |-> "throw", status |-> 0, url |-> "", locale |-> ""]

\* this.regions = config.locales
regions == <<"en", "fr">>

InRegions(x) == \E i \in 1..Len(regions) : regions[i] = x

\* this.getLanguage(req): the locale of the request URL.
getLanguage(rq) == rq.locale

-----------------------------------------------------------------------------
(* getRedirects                                                            *)

\* The four tests of the find callback.
PatternMatches(re, rq) ==
  \E candidate \in {rq.pathname,
                     rq.pathname \o rq.search,
                     "/" \o rq.locale \o rq.pathname,
                     "/" \o rq.locale \o rq.pathname \o rq.search} : Test(re, candidate)

\* A locale test that lets every rule pass.
LocalePassesAlways(redirect, rq) == TRUE

\* redirect.locale ? redirect.locale.toLowerCase() === req.nextUrl.locale.toLowerCase() : true
LocalePasses(redirect, rq) ==
  IF redirect.locale # "" /\ redirect.locale # UNDEF
  THEN toLowerCase(redirect.locale) = toLowerCase(rq.locale)
  ELSE TRUE

RECURSIVE findLast(_, _, _)

\* A find that keeps the last element its callback accepts.
AcceptedLast(written, i, rq, re, rest) ==
  IF ~re.ok THEN [items |-> written, found |-> 0, error |-> "SyntaxError"]
  ELSE IF rest.error = "" /\ rest.found = 0 /\ PatternMatches(re, rq)
          /\ LocalePasses(written[i], rq)
       THEN [items |-> written, found |-> i, error |-> ""]
       ELSE rest

\* The callback of that find.
CallbackLast(written, i, rq) ==
  AcceptedLast(written, i, rq, regexParser(written[i].pattern), findLast(written, i + 1, rq))

findLast(items, i, rq) ==
  IF i > Len(items) THEN [items |-> items, found |-> 0, error |-> ""]
  ELSE IF items[i].pattern = UNDEF
       THEN [items |-> items, found |-> 0, error |-> "TypeError"]
       ELSE CallbackLast([items EXCEPT ![i].pattern = ModifyPattern(items[i].pattern, getLanguage(rq))],
                         i, rq)

RECURSIVE find(_, _, _)

\* Lines 192-202 for element i, its pattern rewritten and compiled to re: the
\* element is found, or the scan goes on.
Accepted(written, i, rq, re) ==
  IF ~re.ok THEN [items |-> written, found |-> 0, error |-> "SyntaxError"]
  ELSE IF PatternMatches(re, rq) /\ LocalePasses(written[i], rq)
       THEN [items |-> written, found |-> i, error |-> ""]
       ELSE find(written, i + 1, rq)

\* The callback on element i once lines 184-190 have rewritten its pattern.
Callback(written, i, rq) == Accepted(written, i, rq, regexParser(written[i].pattern))

\* modifyRedirects.find(callback) from element i on: the elements as the
\* callback left them, the index found (0: undefined) and the error thrown.
find(items, i, rq) ==
  IF i > Len(items) THEN [items |-> items, found |-> 0, error |-> ""]
  ELSE IF items[i].pattern = UNDEF
       THEN [items |-> items, found |-> 0, error |-> "TypeError"]
       ELSE Callback([items EXCEPT ![i].pattern = ModifyPattern(items[i].pattern, getLanguage(rq))],
                     i, rq)

\* A copy that is the object itself.
structuredCloneAlias(h, ref) == ref

\* structuredClone(redirects): the reference of the copy, a new object.
structuredClone(h, ref) == Len(h) + 1

\* What getRedirects leaves: the heap, the references of redirects and
\* modifyRedirects (0: none), the element of modifyRedirects returned (0:
\* undefined) and the error thrown ("" when none).
Got(h, r1, r2, found, error) ==
  [heap |-> h, redirects |-> r1, modifyRedirects |-> r2, found |-> found, error |-> error]

\* Lines 182-204: the result f of the find on the copy.
Scanned(h2, r1, r2, f) == Got([h2 EXCEPT ![r2].items = f.items], r1, r2, f.found, f.error)

\* Lines 182-204 on modifyRedirects, the object at r2.
Cloned(h2, r1, r2, rq) ==
  CASE h2[r2].k \in {"object", "number"} -> Got(h2, r1, r2, 0, "")
    [] h2[r2].k = "string" -> Got(h2, r1, r2, 0, "TypeError")
    [] OTHER -> Scanned(h2, r1, r2, find(h2[r2].items, 1, rq))

\* Lines 175-180 for redirects, the object parsed last into the heap.
Parsed(h1, rq) ==
  IF h1[Len(h1)].k = "array" /\ Len(h1[Len(h1)].items) = 0
  THEN Got(h1, Len(h1), 0, 0, "")
  ELSE Cloned(Append(h1, h1[Len(h1)]), Len(h1), structuredClone(h1, Len(h1)), rq)

\* Line 174 for the text parsed.
Parse(h, parsed, rq) ==
  IF ~parsed.ok THEN Got(h, 0, 0, 0, "SyntaxError")
  ELSE IF parsed.k = "falsy" THEN Got(h, 0, 0, 0, "")
  ELSE Parsed(Append(h, [k |-> parsed.k, items |-> parsed.items]), rq)

\* getRedirects(req, siteName) once get(siteName) has resolved with value.
getRedirects(h, value, rq) ==
  IF value.t # "json" THEN Got(h, 0, 0, 0, "") ELSE Parse(h, JSONparse(value), rq)

-----------------------------------------------------------------------------
(* createResponse, from the redirect found on.                             *)

\* Lines 86-98: the target after the context site language token is replaced.
SiteLangTarget(target, rq) ==
  IF HasSiteLang(target) /\ ~(IsAbsoluteUrl(target) /\ includes(target, rq.hostname))
  THEN ReplaceSiteLang(target, rq.siteLanguage)
  ELSE target

\* url.href = target.  NextURL parses the target as a URL; whether a target
\* without a scheme ("//host/path") parses is left open (parses).
SetHref(target, parses) ==
  IF startsWith(target, "//")
  THEN [ok |-> parses, href |-> "https:" \o target]
  ELSE [ok |-> TRUE, href |-> target]

\* Lines 118-123: the query of the replaced source appended to the search.
Merged(search, query) ==
  IF query # UNDEF /\ query # "" THEN AppendParams(search, split(query, "&")) ELSE search

\* Lines 117-123 for the parts the replaced source splits into at "?".
HrefOf(rq, parts, search) == Origin(rq) \o SetPathname(parts[1]) \o Merged(search, At(parts, 2))

\* Line 115: replace(/^\/\//, '/')
CollapseSlash(replaced) ==
  IF startsWith(replaced, "//") THEN Sub(replaced, 2, Len(replaced)) ELSE replaced

\* Lines 105-106, 113-123 for the target stripped of its region.
RelativeWith(redirect, rq, locale, stripped) ==
  [href |-> HrefOf(rq,
                   split(CollapseSlash(ReplaceAll(regexParser(redirect.pattern),
                                                  rq.pathname \o rq.search, 1, stripped)), "?"),
                   IF redirect.isQueryStringPreserved = TRUE THEN rq.search ELSE ""),
   locale |-> locale, target |-> stripped]

\* Lines 108-111 for the first segment of the target.
RelativeRegion(redirect, target, rq, urlFirstPart, isRegion) ==
  RelativeWith(redirect, rq,
               IF isRegion THEN urlFirstPart ELSE rq.locale,
               IF isRegion THEN RemoveFirst(target, "/" \o urlFirstPart) ELSE target)

\* Line 107.
RelativeFirst(redirect, target, rq, urlFirstPart) ==
  RelativeRegion(redirect, target, rq, urlFirstPart, InRegions(urlFirstPart))

\* Lines 105-123, the relative target: the URL (href, locale) after the
\* rewrite and the target as written back into the redirect.
RelativeUrl(redirect, target, rq) ==
  RelativeFirst(redirect, target, rq, At(split(target, "/"), 2))

\* A switch that answers both redirect types with status 302.
RespondTemporary(redirectType, redirectUrl, locale) ==
  CASE redirectType \in {REDIRECT_TYPE_301, REDIRECT_TYPE_302} -> Redirect(redirectUrl, locale, 302)
    [] redirectType = REDIRECT_TYPE_SERVER_TRANSFER -> Rewrite(redirectUrl, locale)
    [] OTHER -> Pass

\* Lines 128-146: the response for a redirect type.
Respond(redirectType, redirectUrl, locale) ==
  CASE redirectType = REDIRECT_TYPE_301 -> Redirect(redirectUrl, locale, 301)
    [] redirectType = REDIRECT_TYPE_302 -> Redirect(redirectUrl, locale, 302)
    [] redirectType = REDIRECT_TYPE_SERVER_TRANSFER -> Rewrite(redirectUrl, locale)
    [] OTHER -> Pass

\* A test that takes no target for absolute.
TargetIsAbsoluteNever(target) == FALSE

\* Line 102: REGEXP_ABSOLUTE_URL.test(existsRedirect.target)
TargetIsAbsolute(target) == IsAbsoluteUrl(target)

\* createResponse ends with an error thrown.
Failed(target, error) ==
  [response |-> Thrown, redirectUrl |-> "", target |-> target, error |-> error]

\* Lines 126-146 for decodeURIComponent(url.href).
Decoded(existsRedirect, target, redirectUrl, locale) ==
  IF ~redirectUrl.ok THEN Failed(target, "URIError")
  ELSE [response |-> Respond(existsRedirect.redirectType, redirectUrl.v, locale),
        redirectUrl |-> redirectUrl.v, target |-> target, error |-> ""]

\* Lines 103, 126-146: the absolute target set as href.
AbsoluteResponse(existsRedirect, target, set) ==
  IF ~set.ok THEN Failed(target, "TypeError")
  ELSE Decoded(existsRedirect, target, decodeURIComponent(set.href), "")

\* Lines 105-146: the relative target.
RelativeResponse(existsRedirect, rel) ==
  Decoded(existsRedirect, rel.target, decodeURIComponent(rel.href), rel.locale)

\* Lines 100-146 for the target after the token is replaced.
RewrittenTo(existsRedirect, target, rq, parses) ==
  IF TargetIsAbsolute(target)
  THEN AbsoluteResponse(existsRedirect, target, SetHref(target, parses))
  ELSE RelativeResponse(existsRedirect, RelativeUrl(existsRedirect, target, rq))

\* Lines 86-146 for existsRedirect: the response, the redirect URL computed
\* ("" when none was), the target left in existsRedirect and the error thrown.
Rewritten(existsRedirect, rq, parses) ==
  IF existsRedirect.target = UNDEF THEN Failed(UNDEF, "TypeError")
  ELSE RewrittenTo(existsRedirect, SiteLangTarget(existsRedirect.target, rq), rq, parses)

\* Lines 80-84: no redirect, or getRedirects threw.
NotFound(g) ==
  [heap |-> g.heap, redirects |-> g.redirects, modifyRedirects |-> g.modifyRedirects,
   found |-> g.found, redirectUrl |-> "",
   response |-> IF g.error # "" THEN Thrown ELSE Pass, error |-> g.error]

\* Lines 86-146 done on the redirect found.
Responded(g, c) ==
  [heap |-> [g.heap EXCEPT ![g.modifyRedirects].items[g.found].target = c.target],
   redirects |-> g.redirects, modifyRedirects |-> g.modifyRedirects,
   found |-> g.found, redirectUrl |-> c.redirectUrl,
   response |-> c.response, error |-> c.error]

\* Lines 78-146 for the result g of getRedirects.
createResponse(g, rq, parses) ==
  IF g.error # "" \/ g.found = 0 THEN NotFound(g)
  ELSE Responded(g, Rewritten(g.heap[g.modifyRedirects].items[g.found], rq, parses))

\* edgeConfigHandler from the point get(siteName) resolved with value: it
\* runs to its end without another await.
edgeConfigHandler(h, value, rq, parses) == createResponse(getRedirects(h, value, rq), rq, parses)

\* A handler without the catch.
getHandlerNoCatch(ran) == ran

\* The handler getHandler returns: its catch answers res || NextResponse.next()
\* for any error of edgeConfigHandler.
getHandler(ran) == IF ran.error # "" THEN [ran EXCEPT !.response = Pass] ELSE ran

Handled(h, value, rq, parses) == getHandler(edgeConfigHandler(h, value, rq, parses))

-----------------------------------------------------------------------------
(* The inputs of the model.                                                *)

\* The longest rule catalog the store holds.
MaxRules == 2

\* The number of concurrent invocations of the handler in ConcSpec.
MaxInvocations == 2

Invocations == 1..MaxInvocations

RedirectTypes == {REDIRECT_TYPE_301, REDIRECT_TYPE_302, REDIRECT_TYPE_SERVER_TRANSFER, "REDIRECT_NONE", UNDEF}

Plain(redirectType, locale) == RedirectInfo("/old", "/new", redirectType, locale, FALSE)

Unusable == RedirectInfo("/x(", "/new", REDIRECT_TYPE_301, "", FALSE)

Capture == RedirectInfo("/foo/(.*)", "/bar/$1", REDIRECT_TYPE_302, "", FALSE)

\* The rules: the plain rule in every redirect type and locale, the plain
\* pattern with every kind of target, and the other kinds of pattern (one
\* that is no regular expression, one that only matches with the locale
\* prefix, one with a query string, one that matches any query string, and
\* an array element that is no rule).
Rules ==
  {Plain(k, "") : k \in RedirectTypes}
  \cup {Plain(REDIRECT_TYPE_302, l) : l \in {"fr", "EN"}}
  \cup {RedirectInfo("/old", t, REDIRECT_TYPE_301, "", p) :
          t \in {"/new?b=2", "https://b.io/new"}, p \in BOOLEAN}
  \cup {RedirectInfo("/old", t, REDIRECT_TYPE_301, "", TRUE) :
          t \in {"/new", "/$siteLang/new", "/fr/new", "/n%65w", "/%zz", "//b.io/new",
                 "https://b.io/$siteLang/n%65w", "https://a.io/$siteLang", UNDEF}}
  \cup {Capture, Unusable,
        RedirectInfo("/../old", "/new", REDIRECT_TYPE_SERVER_TRANSFER, "", FALSE),
        RedirectInfo("/old?a=1", "/new?b=2", REDIRECT_TYPE_301, "", FALSE),
        RedirectInfo("/OLD.*", "/new", REDIRECT_TYPE_302, "", FALSE),
        RedirectInfo(UNDEF, "/new", REDIRECT_TYPE_301, "", FALSE)}

\* The rules that fill the other places of a catalog.
Fillers == {RedirectInfo("/old", "/other", REDIRECT_TYPE_302, "", FALSE), Unusable, Capture}

RECURSIVE SeqsUpTo(_, _)
SeqsUpTo(S, n) ==
  IF n = 0 THEN {<<>>}
  ELSE LET shorter == SeqsUpTo(S, n - 1)
       IN shorter \cup {Append(c, r) : c \in shorter, r \in S}

\* The catalogs: every rule at every place of a catalog of at most MaxRules
\* rules, the other places holding fillers.
Catalogs ==
  LET fill == SeqsUpTo(Fillers, MaxRules - 1)
      around == {ba \in fill \X fill : Len(ba[1]) + Len(ba[2]) < MaxRules}
  IN {<<>>} \cup {ba[1] \o <<r>> \o ba[2] : r \in Rules, ba \in around}

\* What get(siteName) can find in the store.
StoreValues ==
  {NoValue, EmptyString}
  \cup {JsonText(k, <<>>) : k \in {"malformed", "falsy", "object", "number", "string"}}
  \cup {JSONstringify(c) : c \in Catalogs}

Request(pathname, search, locale, skip) ==
  [pathname |-> pathname, search |-> search, locale |-> locale, hostname |-> "a.io",
   siteLanguage |-> "de", skip |-> skip]

\* The requests: skip names the reason createResponse returns before
\* getRedirects (config.disabled, isPreview, excludeRoute), "" when none.
Requests ==
  {Request(p, q, l, "") : p \in {"/old", "/foo/abc"}, q \in {"", "?a=1"}, l \in {"en", "fr"}}
  \cup {Request("/old", "", "en", k) : k \in {"disabled", "preview", "route excluded"}}

\* The rules and requests of the concurrent invocations.
SharedRules ==
  {RedirectInfo("/old", "/$siteLang/new", REDIRECT_TYPE_301, "", TRUE),
   RedirectInfo("/foo/(.*)", "/fr/bar/$1", REDIRECT_TYPE_302, "fr", FALSE)}

SharedStoreValues == {NoValue} \cup {JSONstringify(c) : c \in SeqsUpTo(SharedRules, MaxRules)}

SharedRequests ==
  {Request("/old", "?a=1", "en", ""), Request("/foo/abc", "", "fr", "")}

-----------------------------------------------------------------------------
(* The middleware as a state machine.  An invocation of the handler runs    *)
(* from the request to await get(siteName) (Start), and from the value get  *)
(* resolves with, or its rejection, to the response.                        *)

VARIABLES
  store,            \* the value the store holds under the site name
  heap,             \* the objects JSON.parse and structuredClone created
  pc,               \* per invocation: "idle", "get" (awaiting get), "done"
  req,              \* per invocation: the request
  redirects,        \* per invocation: the reference of redirects (0: none)
  modifyRedirects,  \* per invocation: the reference of modifyRedirects
  existsRedirect,   \* per invocation: the index found in modifyRedirects
  redirectUrl,      \* per invocation: redirectUrl ("" when not computed)
  response,         \* per invocation: the response returned
  error,            \* per invocation: the error the handler caught
  env,              \* publish handler: which environment variables are set
  ppc,              \* publish handler: where it stands
  fetched,          \* publish handler: the rule set fetchRedirects returned
  sends             \* publish handler: the responses it sent, in order

middleware == <<heap, pc, req, redirects, modifyRedirects, existsRedirect,
                redirectUrl, response, error>>

publisher == <<env, ppc, fetched, sends>>

vars == <<store, middleware, publisher>>

NoRequest == Request("", "", "", "")

Environment == [JSS_APP_NAME : BOOLEAN, EDGE_CONFIG_ENDPOINT : BOOLEAN,
                EDGE_CONFIG_VERCEL_TOKEN : BOOLEAN]

AllSet == [JSS_APP_NAME |-> TRUE, EDGE_CONFIG_ENDPOINT |-> TRUE, EDGE_CONFIG_VERCEL_TOKEN |-> TRUE]

MiddlewareInit ==
  /\ heap = <<>>
  /\ pc = [p \in Invocations |-> "idle"]
  /\ req = [p \in Invocations |-> NoRequest]
  /\ redirects = [p \in Invocations |-> 0]
  /\ modifyRedirects = [p \in Invocations |-> 0]
  /\ existsRedirect = [p \in Invocations |-> 0]
  /\ redirectUrl = [p \in Invocations |-> ""]
  /\ response = [p \in Invocations |-> Pass]
  /\ error = [p \in Invocations |-> ""]

PublisherInit(environments) ==
  /\ env \in environments
  /\ ppc = "idle"
  /\ fetched = <<>>
  /\ sends = <<>>

InitWith(values) ==
  /\ store \in values
  /\ MiddlewareInit
  /\ PublisherInit({AllSet})

\* Lines 51-78: the handler is called with request rq; a skipped request is
\* answered at once, any other awaits get(site.name).
Start(p, rq) ==
  /\ pc[p] = "idle"
  /\ req' = [req EXCEPT ![p] = rq]
  /\ pc' = [pc EXCEPT ![p] = IF rq.skip # "" THEN "done" ELSE "get"]
  /\ UNCHANGED <<store, heap, redirects, modifyRedirects, existsRedirect, redirectUrl,
                 response, error, publisher>>

\* The handler of invocation p returns r.
Returned(p, r) ==
  /\ heap' = r.heap
  /\ redirects' = [redirects EXCEPT ![p] = r.redirects]
  /\ modifyRedirects' = [modifyRedirects EXCEPT ![p] = r.modifyRedirects]
  /\ existsRedirect' = [existsRedirect EXCEPT ![p] = r.found]
  /\ redirectUrl' = [redirectUrl EXCEPT ![p] = r.redirectUrl]
  /\ response' = [response EXCEPT ![p] = r.response]
  /\ error' = [error EXCEPT ![p] = r.error]

\* get(siteName) resolves with the value of the store: lines 174-205 and
\* 80-158 run without another await.
GetResolved(p, parses) ==
  /\ pc[p] = "get"
  /\ Returned(p, Handled(heap, store, req[p], parses))
  /\ pc' = [pc EXCEPT ![p] = "done"]
  /\ UNCHANGED <<store, req, publisher>>

\* get(siteName) rejects: the catch of getHandler answers.
GetRejected(p) ==
  /\ pc[p] = "get"
  /\ error' = [error EXCEPT ![p] = "EdgeConfigError"]
  /\ response' = [response EXCEPT ![p] =
                    getHandler([response |-> Thrown, error |-> "EdgeConfigError"]).response]
  /\ pc' = [pc EXCEPT ![p] = "done"]
  /\ UNCHANGED <<store, heap, req, redirects, modifyRedirects, existsRedirect, redirectUrl,
                 publisher>>

\* One invocation, any store value, any request.
Init == InitWith(StoreValues)

Next ==
  \/ \E rq \in Requests : Start(1, rq)
  \/ \E parses \in BOOLEAN : GetResolved(1, parses)
  \/ GetRejected(1)

Spec == Init /\ [][Next]_vars

\* Concurrent invocations on one store value.
ConcInit == InitWith(SharedStoreValues)

ConcNext ==
  \E p \in Invocations :
    \/ \E rq \in SharedRequests : Start(p, rq)
    \/ \E parses \in BOOLEAN : GetResolved(p, parses)
    \/ GetRejected(p)

ConcSpec == ConcInit /\ [][ConcNext]_vars

-----------------------------------------------------------------------------
(* The publish handler (redirect-publish-handler.ts).  It awaits            *)
(* fetchRedirects, the PATCH of the store and the body of the answer to    *)
(* the PATCH; ppc names the await it stands at.                            *)

\* A call of response.status(status).send(body) or .json(body); sends is the
\* sequence of the calls the handler made.
Send(status, body) == [status |-> status, body |-> body]

\* The response was sent: another send throws ERR_HTTP_HEADERS_SENT.
headersSent == sends # <<>>

\* The rule sets fetchRedirects returns.
FetchedRuleSets == SeqsUpTo(Fillers, MaxRules)

\* Lines 7-25: without one of the environment variables the handler answers
\* 500 and returns; otherwise it awaits fetchRedirects.
Publish ==
  /\ ppc = "idle"
  /\ IF ~env.JSS_APP_NAME \/ ~env.EDGE_CONFIG_ENDPOINT \/ ~env.EDGE_CONFIG_VERCEL_TOKEN
     THEN /\ sends' = Append(sends, Send(500, "Environment variables for Edge Config redirects are not set"))
          /\ ppc' = "returned"
     ELSE /\ ppc' = "fetchRedirects"
          /\ UNCHANGED sends
  /\ UNCHANGED <<store, middleware, env, fetched>>

\* Lines 25-47: fetchRedirects resolves; an empty rule set is answered with
\* 200 and the handler goes on to the PATCH.
FetchResolved(rules) ==
  /\ ppc = "fetchRedirects"
  /\ fetched' = rules
  /\ sends' = IF Len(rules) = 0 THEN Append(sends, Send(200, "No redirects present")) ELSE sends
  /\ ppc' = "fetch"
  /\ UNCHANGED <<store, middleware, env>>

\* fetchRedirects rejects, outside the try: the handler rejects.
FetchRejected ==
  /\ ppc = "fetchRedirects"
  /\ ppc' = "fetchFailed"
  /\ UNCHANGED <<store, middleware, env, fetched, sends>>

\* Lines 38-49: the PATCH is answered; the store took the upsert when it
\* accepted the request.
PatchResolved(accepted) ==
  /\ ppc = "fetch"
  /\ store' = IF accepted THEN JSONstringify(fetched) ELSE store
  /\ ppc' = "json"
  /\ UNCHANGED <<middleware, env, fetched, sends>>

\* The catch of lines 51-54: it sends 500, which throws out of the handler
\* when a response was sent before.
CatchSend ==
  /\ sends' = Append(sends, Send(500, "Error updating Edge Config"))
  /\ ppc' = IF headersSent THEN "rejected" ELSE "returned"

\* The PATCH fails (lines 38, 51-54).
PatchRejected ==
  /\ ppc = "fetch"
  /\ CatchSend
  /\ UNCHANGED <<store, middleware, env, fetched>>

\* Lines 49-54: the body of the answer is read and sent with 200; that send
\* throws into the catch when a response was sent before.
JsonResolved ==
  /\ ppc = "json"
  /\ IF headersSent
     THEN /\ sends' = sends \o <<Send(200, "result"), Send(500, "Error updating Edge Config")>>
          /\ ppc' = "rejected"
     ELSE /\ sends' = Append(sends, Send(200, "result"))
          /\ ppc' = "returned"
  /\ UNCHANGED <<store, middleware, env, fetched>>

\* The body of the answer is no JSON (lines 49, 51-54).
JsonRejected ==
  /\ ppc = "json"
  /\ CatchSend
  /\ UNCHANGED <<store, middleware, env, fetched>>

PublishInit ==
  /\ store \in {NoValue} \cup {JSONstringify(c) : c \in FetchedRuleSets}
  /\ MiddlewareInit
  /\ PublisherInit(Environment)

PublishNext ==
  \/ Publish
  \/ \E rules \in FetchedRuleSets : FetchResolved(rules)
  \/ FetchRejected
  \/ \E accepted \in BOOLEAN : PatchResolved(accepted)
  \/ PatchRejected
  \/ JsonResolved
  \/ JsonRejected

PublishSpec == PublishInit /\ [][PublishNext]_vars

-----------------------------------------------------------------------------
(* The properties.                                                         *)

\* Invocation p has answered a request that went through getRedirects.
Done(p) == pc[p] = "done" /\ req[p].skip = ""

\* Invocation p has answered from the value get(siteName) resolved with.
Read(p) == Done(p) /\ error[p] # "EdgeConfigError"

\* The store holds a rule array.
IsCatalog == store.t = "json" /\ store.k = "array"

\* Invocation p found a rule and computed the redirect URL.
Rewrote(p) == Read(p) /\ existsRedirect[p] > 0 /\ error[p] = ""

\* The rule of the stored catalog that invocation p found.
Found(p) == store.items[existsRedirect[p]]

\* The rule's transformed pattern is a regular expression.
Usable(rule, rq) ==
  rule.pattern # UNDEF /\ regexParser(ModifyPattern(rule.pattern, getLanguage(rq))).ok

\* The rule's compiled pattern matches one of the four candidate strings.
Matches(rule, rq) ==
  Usable(rule, rq) /\ PatternMatches(regexParser(ModifyPattern(rule.pattern, getLanguage(rq))), rq)

\* The match condition: a candidate matches and the locale filter passes.
Qualifies(rule, rq) ==
  /\ Matches(rule, rq)
  /\ rule.locale \in {"", UNDEF} \/ toLowerCase(rule.locale) = toLowerCase(rq.locale)

\* The responses an invocation alone gives for the catalog and the request.
Alone(catalog, rq) == {Handled(<<>>, JSONstringify(catalog), rq, b).response : b \in BOOLEAN}

\* The query string of a URL, and the parameters of a query string.
QueryOf(url) == LET i == indexOf(url, "?") IN IF i = 0 THEN "" ELSE Sub(url, i, Len(url))

ParamsOf(search) ==
  LET parts == split(Sub(search, 2, Len(search)), "&")
  IN {parts[i] : i \in 1..Len(parts)} \ {""}

Kinds == {REDIRECT_TYPE_301, REDIRECT_TYPE_302, REDIRECT_TYPE_SERVER_TRANSFER}

\* C1: whenever a rule was found and the redirect URL computed, the response
\* is decided by the rule's redirect type alone: REDIRECT_301 gives a redirect
\* to that URL with status 301, REDIRECT_302 one with status 302,
\* SERVER_TRANSFER a rewrite to it, and any other or no type gives Pass; a
\* catalog whose rules all have another or no type gives Pass for every
\* request, matched or not.
C1_OutcomeByKind ==
  \A p \in Invocations :
    /\ Rewrote(p) =>
         LET k == Found(p).redirectType
             r == response[p]
         IN /\ k = REDIRECT_TYPE_301 =>
                 r.type = "redirect" /\ r.status = 301 /\ r.url = redirectUrl[p]
            /\ k = REDIRECT_TYPE_302 =>
                 r.type = "redirect" /\ r.status = 302 /\ r.url = redirectUrl[p]
            /\ k = REDIRECT_TYPE_SERVER_TRANSFER => r.type = "rewrite" /\ r.url = redirectUrl[p]
            /\ k \notin Kinds => r = Pass
    /\ (Done(p) /\ IsCatalog /\ \A i \in 1..Len(store.items) : store.items[i].redirectType \notin Kinds)
         => response[p] = Pass

C1_Witness ==
  \E p \in Invocations :
    Rewrote(p) /\ Found(p).redirectType = REDIRECT_TYPE_301 /\ response[p].status = 301

\* C2: the rule found is the earliest rule of the catalog that satisfies the
\* match condition, the response is the one that rule alone gives, and when
\* no rule's compiled pattern matches a candidate string the response is Pass.
C2_FirstMatch ==
  \A p \in Invocations :
    /\ (Read(p) /\ existsRedirect[p] > 0) =>
         /\ Qualifies(Found(p), req[p])
         /\ \A j \in 1..(existsRedirect[p] - 1) : ~Qualifies(store.items[j], req[p])
         /\ response[p] \in Alone(<<Found(p)>>, req[p])
    /\ (Read(p) /\ IsCatalog /\ \A i \in 1..Len(store.items) : ~Matches(store.items[i], req[p]))
         => response[p] = Pass

C2_Witness ==
  \E p \in Invocations :
    /\ Rewrote(p) /\ existsRedirect[p] = 1 /\ Len(store.items) = 2
    /\ Qualifies(store.items[2], req[p])
    /\ response[p].type = "redirect"
    /\ response[p] \notin Alone(<<store.items[2]>>, req[p])

\* C3: a rule whose transformed pattern is no regular expression is left out
\* and the rules after it are still evaluated: the first rule that satisfies
\* the match condition is found even when unusable rules come before it.
C3_CompilationErrorLocalized ==
  \A p \in Invocations :
    (Read(p) /\ IsCatalog) =>
      \A i \in 1..Len(store.items) :
        (/\ Qualifies(store.items[i], req[p])
         /\ \A j \in 1..(i - 1) : store.items[j].pattern # UNDEF /\ ~Qualifies(store.items[j], req[p]))
        => existsRedirect[p] = i

\* C4 (for a relative target, where the queries are merged): with
\* isQueryStringPreserved every parameter of the request is in the query
\* string of the redirect URL; without it only parameters of the target are.
C4_QueryMergeLaw ==
  \A p \in Invocations :
    (Rewrote(p) /\ ~IsAbsoluteUrl(Found(p).target)) =>
      LET final == ParamsOf(QueryOf(redirectUrl[p]))
      IN IF Found(p).isQueryStringPreserved
         THEN ParamsOf(req[p].search) \subseteq final
         ELSE final \subseteq ParamsOf(QueryOf(Found(p).target))

\* An element of the array lacks the pattern or the target of a rule.
Malformed(rule) == rule.pattern = UNDEF \/ rule.target = UNDEF

\* The scan of the array comes to a malformed element before it finds a
\* rule: no earlier element satisfies the match condition, and the element
\* lacks its pattern, or satisfies the match condition and lacks its target.
MalformedEvaluated(rq) ==
  \E i \in 1..Len(store.items) :
    /\ \A j \in 1..(i - 1) : ~Qualifies(store.items[j], rq)
    /\ \/ store.items[i].pattern = UNDEF
       \/ store.items[i].target = UNDEF /\ Qualifies(store.items[i], rq)

\* C5 (as the spec states it): when the read of the store fails or returns
\* nothing, an empty array or data that is not a well-formed rule array, the
\* response is Pass.
C5_AsStated ==
  \A p \in Invocations :
    (Done(p) /\ (\/ error[p] = "EdgeConfigError"
                 \/ ~IsCatalog
                 \/ Len(store.items) = 0
                 \/ \E i \in 1..Len(store.items) : Malformed(store.items[i])))
      => response[p] = Pass

\* C5 (amended): no error leaves the handler, and the response is Pass when
\* the read of the store fails or returns nothing, an empty string, text that
\* is no JSON, JSON that is no array, an empty array, or an array in which
\* the scan comes to a malformed element before it finds a rule.
C5_CatalogUnavailablePasses ==
  \A p \in Invocations :
    /\ pc[p] = "done" => response[p].type \in {"next", "redirect", "rewrite"}
    /\ (Done(p) /\ (\/ error[p] = "EdgeConfigError"
                    \/ ~IsCatalog
                    \/ Len(store.items) = 0
                    \/ MalformedEvaluated(req[p])))
         => response[p] = Pass

C5_Witness ==
  \E p \in Invocations :
    /\ Read(p) /\ IsCatalog /\ MalformedEvaluated(req[p])
    /\ error[p] = "TypeError" /\ response[p] = Pass

\* C6: after any interleaving of invocations on one stored catalog, the array
\* an invocation parsed is still the stored catalog, the rewriting of
\* patterns and targets is in the copy of that invocation alone, and the
\* response of each invocation is the one it gives when it runs alone.
C6_NoInterference ==
  \A p \in Invocations :
    /\ (pc[p] = "done" /\ redirects[p] > 0) => heap[redirects[p]].items = store.items
    /\ (pc[p] = "done" /\ modifyRedirects[p] > 0) =>
         /\ modifyRedirects[p] # redirects[p]
         /\ \A q \in Invocations \ {p} :
              modifyRedirects[p] \notin {redirects[q], modifyRedirects[q]}
    /\ Read(p) => response[p] \in {Handled(<<>>, store, req[p], b).response : b \in BOOLEAN}

C6_Witness ==
  \E p, q \in Invocations :
    /\ p # q /\ Rewrote(p) /\ Rewrote(q) /\ req[p] # req[q]
    /\ heap[modifyRedirects[p]].items # store.items
    /\ heap[modifyRedirects[q]].items # heap[modifyRedirects[p]].items
    /\ response[p] # Pass /\ response[q] # Pass

\* C7: a rule with a locale is found only for a request whose locale equals
\* it without regard to case, even when its pattern matches a candidate
\* string; a first rule without locale whose pattern matches is found.
C7_LocaleFilter ==
  \A p \in Invocations :
    /\ (Read(p) /\ existsRedirect[p] > 0 /\ Found(p).locale \notin {"", UNDEF}) =>
         toLowerCase(Found(p).locale) = toLowerCase(req[p].locale)
    /\ (Read(p) /\ IsCatalog /\ Len(store.items) > 0) =>
         ((Matches(store.items[1], req[p]) /\ store.items[1].locale = "") => existsRedirect[p] = 1)

C7_Witness ==
  \E p \in Invocations :
    /\ Read(p) /\ IsCatalog /\ Len(store.items) > 0
    /\ store.items[1].locale = "fr" /\ req[p].locale = "en"
    /\ Matches(store.items[1], req[p])
    /\ existsRedirect[p] # 1

\* C8 (where nothing but the target can decide the URL: a relative target
\* without "$", no region as its first segment, and no query of the request
\* to preserve): the redirect URL is the origin of the request followed by
\* the target, decoded once.
C8_TargetUnchanged ==
  \A p \in Invocations :
    (/\ Rewrote(p)
     /\ ~includes(Found(p).target, "$")
     /\ ~IsAbsoluteUrl(Found(p).target)
     /\ ~InRegions(At(split(Found(p).target, "/"), 2))
     /\ Found(p).isQueryStringPreserved = FALSE \/ req[p].search = "")
    => redirectUrl[p] = decodeURIComponent(Origin(req[p]) \o Found(p).target).v

\* C9 (as the spec states it): for an absolute target the redirect URL is
\* exactly the target.
C9_AsStated ==
  \A p \in Invocations :
    (Rewrote(p) /\ IsAbsoluteUrl(Found(p).target)) => redirectUrl[p] = Found(p).target

\* The absolute target as the redirect URL renders it: the locale placeholder
\* replaced by the site language unless the target names the host of the
\* request, the scheme of the request given to a target without one, and the
\* whole decoded once.
Rendered(target, rq) ==
  LET t1 == IF HasSiteLang(target) /\ ~includes(target, rq.hostname)
            THEN ReplaceSiteLang(target, rq.siteLanguage) ELSE target
      t2 == IF startsWith(t1, "//") THEN "https:" \o t1 ELSE t1
  IN decodeURIComponent(t2).v

\* C9 (amended): for an absolute target the redirect URL is the target as
\* rendered (placeholder replaced, scheme completed, decoded once): no
\* capture-group substitution, no stripping of a region segment and no
\* merging of the path or query of the request, whatever
\* isQueryStringPreserved is.
C9_AbsoluteTarget ==
  \A p \in Invocations :
    (Rewrote(p) /\ IsAbsoluteUrl(Found(p).target)) =>
      /\ redirectUrl[p] = Rendered(Found(p).target, req[p])
      /\ response[p] # Pass => response[p].url = redirectUrl[p] /\ response[p].locale = ""

C9_Witness ==
  \E p \in Invocations :
    /\ Rewrote(p) /\ IsAbsoluteUrl(Found(p).target)
    /\ Found(p).isQueryStringPreserved = TRUE /\ req[p].search # ""
    /\ redirectUrl[p] = Found(p).target
    /\ response[p].type = "redirect"

\* C10: an invocation of the publish handler that has ended made exactly one
\* send, and the send is the 500 when an environment variable is missing.
C10_OneResponse ==
  ppc \in {"returned", "rejected", "fetchFailed"} =>
    /\ Len(sends) = 1
    /\ env # AllSet => sends[1].status = 500

====
